---- MODULE Spec2Model ----
(***************************************************************************)
(* Model of the RIF Rollup transaction simulator: main -> Cli::run ->      *)
(* Cli::start_simulation, the Throttler and Transaction::generate_deposit. *)
(*                                                                         *)
(* Time is a discrete clock `now`, counted in ticks of 1/TicksPerSec of a  *)
(* second (std::time::Duration counts nanoseconds in the same way).        *)
(***************************************************************************)
EXTENDS Integers, Sequences, FiniteSets, TLC

\* ---- bounds of the model ------------------------------------------------
MaxTps == 3
MaxValue == 2
TicksPerSec == 6
MaxTime == 8
MaxCalls == 3

VARIABLES
    pc,               \* position of the main thread
    config,           \* the Config value loaded by Cli::run
    exit_status,      \* process exit status, -1 while running (101: panic)
    stderr,           \* lines written with eprintln!
    num_transactions, \* local of start_simulation
    i,                \* completed iterations of the for loop
    throttler,        \* the Throttler value
    now,              \* the monotonic clock (Instant::now())
    remaining_time,   \* local of throttle(): the duration handed to sleep
    wake,             \* instant at which the pending thread::sleep may return
    returns,          \* instants at which throttle() calls returned
    flag_tests,       \* evaluations of config.general.enable_throttling
    sent,             \* Provider::send_tx calls made
    outcomes,         \* outcomes recorded for submitted transactions
    amount,           \* local of generate_deposit
    tx                \* value returned by generate_deposit

vars == <<pc, config, exit_status, stderr, num_transactions, i, throttler, now,
          remaining_time, wake, returns, flag_tests, sent, outcomes, amount, tx>>

\* ---- values ---------------------------------------------------------------
NoConfig == [tag |-> "none"]
NoThrottler == [tag |-> "none"]
NoTransaction == [tag |-> "none"]

\* Config / GeneralConfig / TransactionConfig: plain u32 and bool fields, no
\* validation on load.  Fields start_simulation and generate_deposit never
\* read (account_count, generate_reports, *_transfer_value) are left out.
Configs ==
    [tag : {"Config"},
     general : [tps : 0..MaxTps, enable_throttling : BOOLEAN],
     transaction : [min_deposit_value : 0..MaxValue,
                    max_deposit_value : 0..MaxValue]]

\* rng.gen_range(lo..=hi): the values it may produce; an empty set means the
\* call panics ("cannot sample empty range").
GenRangeFromZero(lo, hi) == 0..hi
GenRange(lo, hi) == lo..hi

\* Duration::from_secs_f64(1.0 / tps as f64), for tps >= 1: the quotient
\* rounded to the nearest tick.  For tps = 0 the quotient is +inf and the
\* conversion panics, see ThrottlerNewPanics.
Interval(tps) == (2 * TicksPerSec + tps) \div (2 * tps)

ThrottlerNewPanics(tps) == tps = 0

\* Throttler::new
ThrottlerNew(tps, t) ==
    [tag |-> "Throttler", start_time |-> t, transaction_interval |-> Interval(tps)]

\* Instant::elapsed
Elapsed(th, t) == t - th.start_time

\* throttle(): does the call sleep, and for how long
MustSleep(th, t) == Elapsed(th, t) < th.transaction_interval
RemainingAdded(th, t) == th.transaction_interval + Elapsed(th, t)
Remaining(th, t) == th.transaction_interval - Elapsed(th, t)

\* the empty struct `Transaction {}`
TransactionValue == [tag |-> "Transaction"]

\* ---- the clock --------------------------------------------------------------
\* Time passes between any two steps.  The clock is capped at MaxTime, except
\* that a pending sleep always sees its wake-up instant arrive.
Tick ==
    /\ pc \notin {"exited", "panicked"}
    /\ \/ now < MaxTime
       \/ pc \in {"sleeping", "t_sleeping"} /\ now < wake
    /\ now' = now + 1
    /\ UNCHANGED <<pc, config, exit_status, stderr, num_transactions, i,
                   throttler, remaining_time, wake, returns, flag_tests, sent,
                   outcomes, amount, tx>>

\* ---- Throttler::throttle ----------------------------------------------------
\* The call made at instant `now`: it returns at once (to pc value `done`) when
\* the interval since start_time has elapsed, and otherwise hands the shortfall
\* to thread::sleep (pc value `asleep`).
ThrottleCall(done, asleep) ==
    IF MustSleep(throttler, now)
    THEN /\ remaining_time' = Remaining(throttler, now)
         /\ wake' = now + Remaining(throttler, now)
         /\ pc' = asleep
         /\ UNCHANGED returns
    ELSE /\ returns' = Append(returns, now)
         /\ pc' = done
         /\ UNCHANGED <<remaining_time, wake>>

\* thread::sleep returns no earlier than the requested duration, and with it
\* throttle() returns.
SleepWake(asleep, done) ==
    /\ pc = asleep
    /\ now >= wake
    /\ returns' = Append(returns, now)
    /\ pc' = done

\* ---- main / Cli::run --------------------------------------------------------
\* Config::load_from_file returns Err: run prints the error and returns, main
\* returns normally.
LoadConfigErr ==
    /\ pc = "main"
    /\ stderr' = Append(stderr, "Error loading configuration")
    /\ exit_status' = 0
    /\ pc' = "exited"
    /\ UNCHANGED <<config, num_transactions, i, throttler, now, remaining_time,
                   wake, returns, flag_tests, sent, outcomes, amount, tx>>

\* Config::load_from_file returns Ok(config): run calls start_simulation.
LoadConfigOk ==
    /\ pc = "main"
    /\ \E c \in Configs : config' = c
    /\ pc' = "start_simulation"
    /\ UNCHANGED <<exit_status, stderr, num_transactions, i, throttler, now,
                   remaining_time, wake, returns, flag_tests, sent, outcomes,
                   amount, tx>>

\* ---- Cli::start_simulation --------------------------------------------------
\* let num_transactions = rng.gen_range(1..= config.general.tps);
GenNumTransactions ==
    /\ pc = "start_simulation"
    /\ IF GenRange(1, config.general.tps) = {}
       THEN /\ pc' = "panicked"
            /\ exit_status' = 101
            /\ UNCHANGED num_transactions
       ELSE /\ \E n \in GenRange(1, config.general.tps) : num_transactions' = n
            /\ pc' = "new_throttler"
            /\ UNCHANGED exit_status
    /\ UNCHANGED <<config, stderr, i, throttler, now, remaining_time, wake,
                   returns, flag_tests, sent, outcomes, amount, tx>>

\* let throttler = Throttler::new(config.general.tps);
NewThrottler ==
    /\ pc = "new_throttler"
    /\ IF ThrottlerNewPanics(config.general.tps)
       THEN /\ pc' = "panicked"
            /\ exit_status' = 101
            /\ UNCHANGED throttler
       ELSE /\ throttler' = ThrottlerNew(config.general.tps, now)
            /\ pc' = "loop"
            /\ UNCHANGED exit_status
    /\ UNCHANGED <<config, stderr, num_transactions, i, now, remaining_time,
                   wake, returns, flag_tests, sent, outcomes, amount, tx>>

\* the condition of `for _ in 0..num_transactions`
LoopContinues(k, n) == k < n

\* One pass through the loop body up to the point where throttle() returns or
\* goes to sleep.  The body tests the flag and calls throttle(); it generates
\* and submits nothing.
LoopIter ==
    /\ pc = "loop"
    /\ LoopContinues(i, num_transactions)
    /\ flag_tests' = flag_tests + 1
    /\ IF config.general.enable_throttling
       THEN ThrottleCall("iter_end", "sleeping")
       ELSE /\ pc' = "iter_end"
            /\ UNCHANGED <<remaining_time, wake, returns>>
    /\ UNCHANGED <<config, exit_status, stderr, num_transactions, i, throttler,
                   now, sent, outcomes, amount, tx>>

\* the sleep inside throttle() ends
LoopSleepReturn ==
    /\ SleepWake("sleeping", "iter_end")
    /\ UNCHANGED <<config, exit_status, stderr, num_transactions, i, throttler,
                   now, remaining_time, wake, flag_tests, sent, outcomes,
                   amount, tx>>

\* end of the loop body: the range iterator advances
LoopIterEnd ==
    /\ pc = "iter_end"
    /\ i' = i + 1
    /\ pc' = "loop"
    /\ UNCHANGED <<config, exit_status, stderr, num_transactions, throttler,
                   now, remaining_time, wake, returns, flag_tests, sent,
                   outcomes, amount, tx>>

\* the range is exhausted: start_simulation returns Ok(())
LoopExit ==
    /\ pc = "loop"
    /\ ~LoopContinues(i, num_transactions)
    /\ pc' = "Completed"
    /\ UNCHANGED <<config, exit_status, stderr, num_transactions, i, throttler,
                   now, remaining_time, wake, returns, flag_tests, sent,
                   outcomes, amount, tx>>

\* run drops the Result and returns; main returns
MainReturn ==
    /\ pc = "Completed"
    /\ exit_status' = 0
    /\ pc' = "exited"
    /\ UNCHANGED <<config, stderr, num_transactions, i, throttler, now,
                   remaining_time, wake, returns, flag_tests, sent, outcomes,
                   amount, tx>>

Init ==
    /\ pc = "main"
    /\ config = NoConfig
    /\ exit_status = -1
    /\ stderr = <<>>
    /\ num_transactions = 0
    /\ i = 0
    /\ throttler = NoThrottler
    /\ now = 0
    /\ remaining_time = 0
    /\ wake = 0
    /\ returns = <<>>
    /\ flag_tests = 0
    /\ sent = 0
    /\ outcomes = <<>>
    /\ amount = 0
    /\ tx = NoTransaction

Next ==
    \/ LoadConfigErr
    \/ LoadConfigOk
    \/ GenNumTransactions
    \/ NewThrottler
    \/ LoopIter
    \/ LoopSleepReturn
    \/ LoopIterEnd
    \/ LoopExit
    \/ MainReturn
    \/ Tick

Spec == Init /\ [][Next]_vars

\* The main thread is always scheduled and time always passes.
FairSpec ==
    /\ Spec
    /\ WF_vars(Tick)
    /\ WF_vars(GenNumTransactions)
    /\ WF_vars(NewThrottler)
    /\ WF_vars(LoopIter)
    /\ WF_vars(LoopSleepReturn)
    /\ WF_vars(LoopIterEnd)
    /\ WF_vars(LoopExit)
    /\ WF_vars(MainReturn)

\* ---- the Throttler on its own ------------------------------------------------
\* A caller that constructs a Throttler from any u32 and then calls throttle()
\* up to MaxCalls times, with any amount of time passing between the calls.
InitThrottler ==
    /\ pc = "t_new"
    /\ config \in Configs
    /\ exit_status = -1
    /\ stderr = <<>>
    /\ num_transactions = 0
    /\ i = 0
    /\ throttler = NoThrottler
    /\ now = 0
    /\ remaining_time = 0
    /\ wake = 0
    /\ returns = <<>>
    /\ flag_tests = 0
    /\ sent = 0
    /\ outcomes = <<>>
    /\ amount = 0
    /\ tx = NoTransaction

\* Throttler::new(tps)
CallThrottlerNew ==
    /\ pc = "t_new"
    /\ IF ThrottlerNewPanics(config.general.tps)
       THEN /\ pc' = "panicked"
            /\ exit_status' = 101
            /\ UNCHANGED throttler
       ELSE /\ throttler' = ThrottlerNew(config.general.tps, now)
            /\ pc' = "t_idle"
            /\ UNCHANGED exit_status
    /\ UNCHANGED <<config, stderr, num_transactions, i, now, remaining_time,
                   wake, returns, flag_tests, sent, outcomes, amount, tx>>

\* throttler.throttle()
CallThrottle ==
    /\ pc = "t_idle"
    /\ Len(returns) < MaxCalls
    /\ ThrottleCall("t_idle", "t_sleeping")
    /\ UNCHANGED <<config, exit_status, stderr, num_transactions, i, throttler,
                   now, flag_tests, sent, outcomes, amount, tx>>

ThrottleSleepReturn ==
    /\ SleepWake("t_sleeping", "t_idle")
    /\ UNCHANGED <<config, exit_status, stderr, num_transactions, i, throttler,
                   now, remaining_time, wake, flag_tests, sent, outcomes,
                   amount, tx>>

NextThrottler ==
    \/ CallThrottlerNew
    \/ CallThrottle
    \/ ThrottleSleepReturn
    \/ Tick

SpecThrottler == InitThrottler /\ [][NextThrottler]_vars

\* ---- Transaction::generate_deposit on its own --------------------------------
InitDeposit ==
    /\ pc = "d_call"
    /\ config \in Configs
    /\ exit_status = -1
    /\ stderr = <<>>
    /\ num_transactions = 0
    /\ i = 0
    /\ throttler = NoThrottler
    /\ now = 0
    /\ remaining_time = 0
    /\ wake = 0
    /\ returns = <<>>
    /\ flag_tests = 0
    /\ sent = 0
    /\ outcomes = <<>>
    /\ amount = 0
    /\ tx = NoTransaction

\* Transaction::generate_deposit(&config): draws `amount`, then returns the
\* field-less struct.
GenerateDeposit ==
    /\ pc = "d_call"
    /\ LET lo == config.transaction.min_deposit_value
           hi == config.transaction.max_deposit_value
       IN IF GenRange(lo, hi) = {}
          THEN /\ pc' = "panicked"
               /\ exit_status' = 101
               /\ UNCHANGED <<amount, tx>>
          ELSE /\ \E x \in GenRange(lo, hi) : amount' = x
               /\ tx' = TransactionValue
               /\ pc' = "d_returned"
               /\ UNCHANGED exit_status
    /\ UNCHANGED <<config, stderr, num_transactions, i, throttler, now,
                   remaining_time, wake, returns, flag_tests, sent, outcomes>>

NextDeposit == GenerateDeposit

SpecDeposit == InitDeposit /\ [][NextDeposit]_vars

\* ---- properties --------------------------------------------------------------
\* start_simulation got past gen_range
Started ==
    \/ pc \in {"new_throttler", "loop", "sleeping", "iter_end", "Completed"}
    \/ pc = "exited" /\ config # NoConfig

\* C1: any two consecutive throttle() returns are at least 1/targetTps seconds
\* apart (so the k-th return is no earlier than (k-1)/targetTps seconds after
\* the first).
C1_ConsecutiveReturnsSpaced ==
    \A k \in 2..Len(returns) :
        config.general.tps * (returns[k] - returns[k-1]) >= TicksPerSec

\* C2: Throttler::new(0) hands an error value back to its caller, with no
\* limiter produced and no crash; Throttler::new(n) with n >= 1 yields a limiter.
C2_ZeroRateIsErrorValue ==
    pc # "t_new" =>
        IF config.general.tps = 0
        THEN pc # "panicked" /\ throttler = NoThrottler
        ELSE throttler # NoThrottler

\* C3: the Transaction returned by generate_deposit carries an amount within
\* [min_deposit_value, max_deposit_value], and generation succeeds when min <= max.
C3_DepositCarriesAmount ==
    /\ pc = "d_returned" =>
          /\ "amount" \in DOMAIN tx
          /\ tx.amount >= config.transaction.min_deposit_value
          /\ tx.amount <= config.transaction.max_deposit_value
    /\ (pc = "panicked" =>
          config.transaction.min_deposit_value > config.transaction.max_deposit_value)

\* C4: the transaction count chosen on entry to the run lies in 1..targetTps,
\* the loop never runs more iterations than that, and at Completed it has run
\* exactly that many.
C4_CountWithinTps ==
    Started =>
        /\ 1 <= num_transactions
        /\ num_transactions <= config.general.tps
        /\ i <= num_transactions
        /\ flag_tests <= num_transactions
        /\ (pc \in {"Completed", "exited"} =>
               i = num_transactions /\ flag_tests = num_transactions)

C4_Witness ==
    /\ pc = "Completed"
    /\ i = num_transactions
    /\ i = config.general.tps
    /\ i > 1

\* C5: every loop iteration submits exactly one transaction through the
\* Provider and records its outcome (after throttle() returned, when throttling
\* is enabled).
C5_EveryIterationSubmits ==
    pc = "Completed" =>
        /\ sent = i
        /\ Len(outcomes) = i
        /\ (config.general.enable_throttling => Len(returns) = i)

\* the Provider test double of the scenario: the answers to successive send_tx
\* calls
ProviderScript == <<"OperationTimeout", "OperationTimeout", "Ok">>

\* C6: against a Provider that answers OperationTimeout twice and then
\* succeeds, the run retries the first transaction twice (three send_tx calls)
\* and records Accepted for it.
C6_RetriesThenAccepted ==
    pc = "Completed" =>
        /\ sent >= Len(ProviderScript)
        /\ Len(outcomes) >= 1
        /\ outcomes[1] = "Accepted"

\* C7: a process whose configuration failed to load exits with a non-zero
\* status without having started the simulation; a process that reached
\* Completed exits with status 0.
C7_LoadFailureExitsNonZero ==
    pc = "exited" =>
        IF config = NoConfig
        THEN exit_status # 0 /\ flag_tests = 0 /\ returns = <<>> /\ sent = 0
        ELSE exit_status = 0

\* C8: the k-th throttle() call waits for a deadline that moves on by one
\* interval with every call, so it does not return before start_time plus k
\* intervals.
C8_RollingDeadline ==
    \A k \in 1..Len(returns) :
        returns[k] >= throttler.start_time + k * throttler.transaction_interval

\* C9: with enable_throttling false the decision is taken once at construction:
\* the loop never tests the flag, and no iteration enters the limiter.
C9_FlagDecidedAtConstruction ==
    (Started /\ ~config.general.enable_throttling) =>
        /\ flag_tests = 0
        /\ returns = <<>>
        /\ pc # "sleeping"

\* C10: a run started with targetTps >= 1 reaches Completed having run exactly
\* num_transactions iterations, and every sleep throttle() asks for lasts at
\* most one interval.
C10_RunCompletes ==
    /\ [](pc = "sleeping" =>
            /\ remaining_time >= 1
            /\ remaining_time <= throttler.transaction_interval)
    /\ (pc = "start_simulation" /\ config.general.tps >= 1)
          ~> (pc = "Completed" /\ i = num_transactions)

C10_Witness ==
    /\ pc = "Completed"
    /\ config.general.enable_throttling
    /\ i > 1
    /\ Len(returns) = i
    /\ remaining_time >= 1
====
